---- MODULE Spec2Model ----
(***************************************************************************)
(* goscanql: binding of flat SQL rows into nested Go structs.              *)
(*                                                                         *)
(* The model follows the pipeline of scanRows (src/goscanql.go:305-338):   *)
(* newFields binds a fresh instance, fields.scan fills it and nulls the    *)
(* absent entities, recordMap.merge (src/please.md:74-128) merges it into  *)
(* the accumulated entries by hash.  Go memory is modelled explicitly:     *)
(* a heap of backing arrays, slice headers (array, length) stored inside   *)
(* struct values, and addresses of elements and of slice fields.           *)
(***************************************************************************)
EXTENDS Integers, Sequences, FiniteSets, TLC

VARIABLES
    types,      \* the struct declarations of the target type: name -> fields
    root,       \* the name of the target struct type T
    heap,       \* Go heap: sequence of backing arrays
    entries,    \* recordMap.entries: the slice header of the output
    hashTable,  \* recordMap.hashTable: the root recordList
    rows,       \* the rows the cursor has yielded so far
    entry,      \* the fields tree of the row being processed (or NoFields)
    pc,         \* position of scanRows: "next", "merge", "done", "panic"
    vres,       \* what validateType returned for the target type
    target,     \* the reflect.Type of T that validateType is given
    bound,      \* the fields trees whose hashes are compared
    digests,    \* the getHash results of the trees in bound
    api,        \* the entry point called: "RowsToStructs" or "RowsToStruct"
    stack,      \* the call stack of validateType: frames of hasCycle, traverseType
    cursor,     \* the *sql.Rows: how Next ended and how often Scan was called
    ret         \* what the entry point returned: value and error

vars == <<types, root, heap, entries, hashTable, rows, entry, pc, vres,
          target, bound, digests, api, stack, cursor, ret>>

(***************************************************************************)
(* Bounds                                                                  *)
(***************************************************************************)
MaxRows == 3
MaxVal == 1
\* the number of fields of the structs of a validated type
MaxFields == 2
MaxInner == 1

(***************************************************************************)
(* reflect.Type                                                            *)
(***************************************************************************)
Prim(k) == [k |-> k, e |-> <<>>, n |-> ""]
Ptr(t) == [k |-> "ptr", e |-> <<t>>, n |-> ""]
SliceOf(t) == [k |-> "slice", e |-> <<t>>, n |-> ""]
ArrayOf(t) == [k |-> "array", e |-> <<t>>, n |-> ""]
MapOf(t) == [k |-> "map", e |-> <<t>>, n |-> ""]
Struct(n) == [k |-> "struct", e |-> <<>>, n |-> n]
\* a defined type over an unnamed one: type n t
Named(n, t) == [t EXCEPT !.n = n]

\* the defined types that declare Scan and GetID (src/validator.go:571-579)
ScannerTypes == {"arrayScanner"}

\* src/scanner.go:23-25
implementsScanner(t) == t.n \in ScannerTypes

\* a struct field; tag "" means the field carries no goscanql tag
Field(tag, ty) == [tag |-> tag, ty |-> ty]

RECURSIVE getPointerRootType(_)
getPointerRootType(t) ==
    IF t.k # "ptr" THEN t ELSE getPointerRootType(t.e[1])

RECURSIVE getSliceRootType(_)
getSliceRootType(t) ==
    LET raw == getPointerRootType(t)
    IN  IF raw.k # "slice" THEN t ELSE getSliceRootType(raw.e[1])

isGoscanqlField(f) == f.tag # ""

\* error values: fmt.Errorf of a validator with the type it names, the nil
\* error, and the value of an error variable nothing was assigned to yet
Errorf(name, t) == [err |-> name, ty |-> t]
NoError == [err |-> "ok", ty |-> Prim("")]
NotRun == [err |-> "-", ty |-> Prim("")]

\* a *sql.Rows before its first Next, and an entry point that has not
\* returned
\* the error value a panic(err) unwinds with
IsPanic(e) == e.err \in {"panic: addField", "panic: validateType"}

\* what the scan callback (rows.Scan) does on a row: fail.pass is the
\* call of the row that fails (0: none) and fail.err the error it returns
NoFailure == [pass |-> 0, err |-> NoError]

\* the cursor: whether rows.Next() can still yield a row, how often rows.Scan
\* was called and what it did on the last row
OpenCursor == [status |-> "open", scans |-> 0, last |-> NoFailure]
NoReturn == [val |-> [kind |-> "-", v |-> <<>>], err |-> NotRun]

(***************************************************************************)
(* Go values and memory                                                    *)
(*                                                                         *)
(* A struct value is [nil, s, o, m]: s maps the tags of its scalar fields  *)
(* to their values, o the tags of its nested structs to their values (a    *)
(* nil pointer is NilPtr), m the tags of its slices to slice headers.      *)
(* A slice header is (backing array, length); z tells a nil slice from an  *)
(* empty one.  heap[a] is a backing array: capacity and written elements.  *)
(* An address names an element of a backing array, a struct nested in it   *)
(* (path of tags) and, for the address of a slice field, the field's tag.  *)
(***************************************************************************)
NilPtr == [nil |-> TRUE, s |-> <<>>, o |-> <<>>, m |-> <<>>]
NilSlice == [arr |-> 0, len |-> 0, z |-> TRUE]
EmptySlice == [arr |-> 0, len |-> 0, z |-> FALSE]

Addr(a, i, p, t) == [arr |-> a, idx |-> i, path |-> p, tag |-> t]
\* &rm.entries, the address of the output slice (src/please.md:127)
RootSlice == Addr(0, 0, <<>>, "")
NoAddr == Addr(0, 0, <<>>, "-")

ZeroOf(k) == IF k = "string" THEN "" ELSE 0

\* the field category initialiseFields decides on (src/fields.go:464-492)
Cat(f) ==
    LET r == getPointerRootType(f.ty)
    IN  IF r.k = "struct" THEN "oto" ELSE IF r.k = "slice" THEN "otm" ELSE "scalar"

TaggedOf(T, n, cat) ==
    SelectSeq(T[n], LAMBDA f : isGoscanqlField(f) /\ Cat(f) = cat)

TagsOf(T, n, cat) ==
    LET fs == TaggedOf(T, n, cat) IN [i \in DOMAIN fs |-> fs[i].tag]

Range(q) == {q[i] : i \in DOMAIN q}

\* the first field of struct n tagged tag (src/please.md:142-155)
fieldByTag(T, n, tag) ==
    LET is == {i \in DOMAIN T[n] : T[n][i].tag = tag}
    IN  T[n][CHOOSE i \in is : \A j \in is : i <= j]

\* reflect.New(t).Elem(): the zero value of struct n
RECURSIVE ZeroStruct(_, _)
ZeroStruct(T, n) ==
    LET \* the first field of a category that carries the tag
        first(cat, t) ==
            LET fs == SelectSeq(TaggedOf(T, n, cat), LAMBDA f : f.tag = t)
            IN  fs[1]
    IN
    [nil |-> FALSE,
     s |-> [t \in Range(TagsOf(T, n, "scalar")) |->
                ZeroOf(getPointerRootType(first("scalar", t).ty).k)],
     o |-> [t \in Range(TagsOf(T, n, "oto")) |->
                LET ty == first("oto", t).ty
                IN  IF ty.k = "ptr" THEN NilPtr ELSE ZeroStruct(T, ty.n)],
     m |-> [t \in Range(TagsOf(T, n, "otm")) |-> NilSlice]]

RECURSIVE GetPath(_, _)
GetPath(v, p) == IF p = <<>> THEN v ELSE GetPath(v.o[Head(p)], Tail(p))

RECURSIVE SetPath(_, _, _)
SetPath(v, p, x) ==
    IF p = <<>> THEN x
    ELSE [v EXCEPT !.o[Head(p)] = SetPath(@, Tail(p), x)]

\* the struct at an address, and the heap after writing a struct there
Load(h, a) == GetPath(h[a.arr].data[a.idx], a.path)
Store(h, a, x) == [h EXCEPT ![a.arr].data[a.idx] = SetPath(@, a.path, x)]

\* memory is the heap together with the output slice variable rm.entries
Mem(h, e) == [heap |-> h, entries |-> e]

LoadSlice(mem, sa) ==
    IF sa.arr = 0 THEN mem.entries ELSE Load(mem.heap, sa).m[sa.tag]

StoreSlice(mem, sa, hdr) ==
    IF sa.arr = 0 THEN [mem EXCEPT !.entries = hdr]
    ELSE [mem EXCEPT !.heap =
             Store(@, sa, [Load(mem.heap, sa) EXCEPT !.m[sa.tag] = hdr])]

CapOf(h, hdr) == IF hdr.arr = 0 THEN 0 ELSE h[hdr.arr].cap

\* an append that, out of capacity, writes over the last element instead of
\* moving to a fresh backing array
AppendSliceOverLast(mem, sa, x) ==
    LET hdr == LoadSlice(mem, sa)
        h == mem.heap
    IN  IF hdr.len < CapOf(h, hdr)
        THEN LET h1 == [h EXCEPT ![hdr.arr].data =
                           IF hdr.len < Len(@) THEN [@ EXCEPT ![hdr.len + 1] = x]
                           ELSE Append(@, x)]
             IN  StoreSlice([mem EXCEPT !.heap = h1], sa,
                            [hdr EXCEPT !.len = @ + 1, !.z = FALSE])
        ELSE IF hdr.len = 0
        THEN LET h1 == Append(h, [cap |-> 1, data |-> <<x>>])
             IN  StoreSlice([mem EXCEPT !.heap = h1], sa,
                            [arr |-> Len(h1), len |-> 1, z |-> FALSE])
        ELSE [mem EXCEPT !.heap = [h EXCEPT ![hdr.arr].data[hdr.len] = x]]

\* reflect.Append(srv, x) followed by srv.Set: in place while capacity
\* lasts, otherwise into a fresh backing array of doubled capacity
AppendSlice(mem, sa, x) ==
    LET hdr == LoadSlice(mem, sa)
        h == mem.heap
    IN  IF hdr.len < CapOf(h, hdr)
        THEN LET h1 == [h EXCEPT ![hdr.arr].data =
                           IF hdr.len < Len(@) THEN [@ EXCEPT ![hdr.len + 1] = x]
                           ELSE Append(@, x)]
             IN  StoreSlice([mem EXCEPT !.heap = h1], sa,
                            [hdr EXCEPT !.len = @ + 1, !.z = FALSE])
        ELSE LET old == IF hdr.arr = 0 THEN <<>>
                        ELSE SubSeq(h[hdr.arr].data, 1, hdr.len)
                 c == IF hdr.len = 0 THEN 1 ELSE 2 * hdr.len
                 h1 == Append(h, [cap |-> c, data |-> Append(old, x)])
             IN  StoreSlice([mem EXCEPT !.heap = h1], sa,
                            [arr |-> Len(h1), len |-> hdr.len + 1, z |-> FALSE])


(***************************************************************************)
(* fields: the binding tree of one row (src/fields.go:78-110)              *)
(*                                                                         *)
(* obj is the address of the struct the node fills, slice the address of   *)
(* the slice field it was appended to (one-to-many children only), ptr     *)
(* whether obj is a pointer field, names the orderedFieldNames, bytes the  *)
(* byteReferences, o and m the oneToOnes and oneToManys.  The references   *)
(* of the code are the scalar fields of the struct at obj.                 *)
(***************************************************************************)
NoFields == [obj |-> NoAddr, hasSlice |-> FALSE, slice |-> NoAddr, ptr |-> FALSE,
             n |-> "", names |-> <<>>, bytes |-> <<>>, o |-> <<>>, m |-> <<>>]

RECURSIVE newFields(_, _, _, _, _, _, _)
RECURSIVE initialiseFields(_, _, _, _, _)

\* src/fields.go:363-412; n is the struct type of the element to bind at a.
\* Returns the heap, the fields node and the error.
newFields(T, h, n, a, hasSl, sl, isPtr) ==
    initialiseFields(T, h, n, 1,
        [obj |-> a, hasSlice |-> hasSl, slice |-> sl, ptr |-> isPtr, n |-> n,
         names |-> <<>>, bytes |-> <<>>, o |-> <<>>, m |-> <<>>])

\* src/fields.go:416-496, the loop over the struct's fields from field i on.
\* addNewChild (src/fields.go:117-150) builds the child and then refuses a
\* name that a child already has; the error is returned for a slice field
\* (src/fields.go:483-486) and dropped for a nested struct
\* (src/fields.go:470-471).  addField panics on a name already added.
initialiseFields(T, h, n, i, f) ==
    IF i > Len(T[n]) THEN [h |-> h, f |-> f, err |-> NoError]
    ELSE
      LET fld == T[n][i]
          rt == getPointerRootType(fld.ty)
          taken == fld.tag \in DOMAIN f.o \cup DOMAIN f.m
      IN
      IF ~isGoscanqlField(fld) THEN initialiseFields(T, h, n, i + 1, f)
      ELSE IF rt.k = "struct" THEN
        \* one-to-one: instantiate the pointers, bind the nested struct
        LET ca == [f.obj EXCEPT !.path = Append(@, fld.tag)]
            h1 == Store(h, ca, ZeroStruct(T, rt.n))
            r == newFields(T, h1, rt.n, ca, FALSE, NoAddr, fld.ty.k = "ptr")
        IN  IF IsPanic(r.err) THEN [h |-> r.h, f |-> f, err |-> r.err]
            ELSE IF r.err # NoError \/ taken
            THEN initialiseFields(T, r.h, n, i + 1, f)
            ELSE initialiseFields(T, r.h, n, i + 1,
                     [f EXCEPT !.o = (fld.tag :> r.f) @@ @])
      ELSE IF rt.k = "slice" THEN
        \* one-to-many: append one fresh element and bind it
        LET en == getPointerRootType(rt.e[1]).n
            sa == [f.obj EXCEPT !.tag = fld.tag]
            m1 == AppendSlice(Mem(h, NilSlice), sa, ZeroStruct(T, en))
            ea == Addr(LoadSlice(m1, sa).arr, 1, <<>>, "")
            r == newFields(T, m1.heap, en, ea, TRUE, sa, FALSE)
        IN  IF r.err # NoError THEN [h |-> r.h, f |-> f, err |-> r.err]
            ELSE IF taken
            THEN [h |-> r.h, f |-> f, err |-> Errorf("addNewChild", Prim(fld.tag))]
            ELSE initialiseFields(T, r.h, n, i + 1,
                     [f EXCEPT !.m = (fld.tag :> r.f) @@ @])
      ELSE IF fld.tag \in DOMAIN f.bytes
      THEN [h |-> h, f |-> f, err |-> Errorf("panic: addField", Prim(fld.tag))]
      ELSE
        \* addField (src/fields.go:153-164)
        initialiseFields(T, h, n, i + 1,
            [f EXCEPT !.names = Append(@, fld.tag),
                      !.bytes = (fld.tag :> "") @@ @])

\* src/fields.go:237-250
buildReferenceName(prefix, name) ==
    IF prefix = "" THEN name
    ELSE IF name = "" THEN prefix
    ELSE prefix \o "_" \o name

\* the children of a node in the order the struct declares them
ChildTags(T, f) == TagsOf(T, f.n, "oto") \o TagsOf(T, f.n, "otm")
Child(f, t) == IF t \in DOMAIN f.o THEN f.o[t] ELSE f.m[t]
SetChild(f, t, c) ==
    IF t \in DOMAIN f.o THEN [f EXCEPT !.o[t] = c] ELSE [f EXCEPT !.m[t] = c]

\* src/fields.go:275-284
\* isNil that takes a node without byteReferences for a present one
isNilUnlessNoSlot(f) ==
    /\ DOMAIN f.bytes # {}
    /\ \A t \in DOMAIN f.bytes : Len(f.bytes[t]) = 0

isNil(f) == \A t \in DOMAIN f.bytes : Len(f.bytes[t]) = 0

\* the kind of the scalar field name of node f
KindOf(T, f, name) == getPointerRootType(fieldByTag(T, f.n, name).ty).k

\* what the driver writes for a column: its text, nothing for NULL
Fmt(k, v) == IF k = "string" THEN v ELSE ToString(v)
RawBytes(k, raw) == IF raw.nil THEN "" ELSE Fmt(k, raw.v)

\* first scan (src/fields.go:342-347): every byteReference of the tree that
\* has a column receives the column's bytes (getByteReferences crawls every
\* node, src/fields.go:190-204)
RECURSIVE scanBytes(_, _, _, _)
scanBytes(T, f, prefix, row) ==
    LET g == [f EXCEPT !.bytes = [t \in DOMAIN f.bytes |->
                 LET col == buildReferenceName(prefix, t)
                 IN  IF col \in DOMAIN row
                     THEN RawBytes(KindOf(T, f, t), row[col])
                     ELSE f.bytes[t]]]
    IN  [g EXCEPT
           !.o = [t \in DOMAIN f.o |->
                    scanBytes(T, f.o[t], buildReferenceName(prefix, t), row)],
           !.m = [t \in DOMAIN f.m |->
                    scanBytes(T, f.m[t], buildReferenceName(prefix, t), row)]]

\* second scan (src/fields.go:349-354): getFieldReferences skips a nil node
\* and everything below it (src/fields.go:168-186); every other reference
\* that has a column receives the column's value, a NULL leaving the zero
\* value of a nullable field
RECURSIVE scanValues(_, _, _, _, _, _)
RECURSIVE scanChildren(_, _, _, _, _, _)
scanValues(T, h, f, prefix, row, i) ==
    IF isNil(f) THEN h
    ELSE IF i <= Len(f.names) THEN
        LET t == f.names[i]
            col == buildReferenceName(prefix, t)
            h1 == IF col \in DOMAIN row /\ ~row[col].nil
                  THEN Store(h, f.obj, [Load(h, f.obj) EXCEPT !.s[t] = row[col].v])
                  ELSE h
        IN  scanValues(T, h1, f, prefix, row, i + 1)
    ELSE scanChildren(T, h, f, prefix, row, 1)

scanChildren(T, h, f, prefix, row, j) ==
    IF j > Len(ChildTags(T, f)) THEN h
    ELSE LET t == ChildTags(T, f)[j]
             h1 == scanValues(T, h, Child(f, t), buildReferenceName(prefix, t), row, 1)
         IN  scanChildren(T, h1, f, prefix, row, j + 1)

\* fieldsSlice.empty (src/fields.go:54-64)
empty(h, f) ==
    IF ~f.hasSlice THEN h
    ELSE StoreSlice(Mem(h, NilSlice), f.slice, EmptySlice).heap

\* src/fields.go:310-336
RECURSIVE emptyNilFields(_, _, _)
RECURSIVE emptyNilChildren(_, _, _, _)
\* emptyNilFields without the reset of the object (src/fields.go:322-323):
\* a nil node keeps the instance that initialiseFields made for it
emptyNilFieldsKeepObject(T, h, f) ==
    IF isNil(f) THEN empty(h, f) ELSE emptyNilChildren(T, h, f, 1)

emptyNilFields(T, h, f) ==
    IF isNil(f)
    THEN Store(empty(h, f), f.obj,
               IF f.ptr THEN NilPtr ELSE ZeroStruct(T, f.n))
    ELSE emptyNilChildren(T, h, f, 1)

emptyNilChildren(T, h, f, j) ==
    IF j > Len(ChildTags(T, f)) THEN h
    ELSE emptyNilChildren(T, emptyNilFields(T, h, Child(f, ChildTags(T, f)[j])), f, j + 1)


(***************************************************************************)
(* Fingerprint (src/fields.go:253-271)                                     *)
(***************************************************************************)
\* the bytes handed to sha1: for every name of orderedFieldNames, in order,
\* fmt.Sprintf("%s%v", key, value) of the referenced value
RECURSIVE rawBytes(_, _, _, _)
rawBytes(T, h, f, i) ==
    IF i > Len(f.names) THEN ""
    ELSE LET key == f.names[i]
             value == Load(h, f.obj).s[key]
         IN  key \o Fmt(KindOf(T, f, key), value) \o rawBytes(T, h, f, i + 1)

\* sha1 is taken to be collision free: the digest stands for its input
sha1(raw) == raw

\* a hash that also tells whether a one-to-many child is present
getHashWithMany(T, h, f) ==
    sha1(rawBytes(T, h, f, 1)
         \o (IF \E t \in DOMAIN f.m : ~isNil(f.m[t]) THEN "+" ELSE ""))

\* a hash that ranges over the references map instead of orderedFieldNames:
\* the order of the keys varies from one map to the next
getHashOverMap(T, h, f) ==
    LET keys == IF f.obj.arr % 2 = 0
                THEN [i \in DOMAIN f.names |-> f.names[Len(f.names) + 1 - i]]
                ELSE f.names
    IN  sha1(rawBytes(T, h, [f EXCEPT !.names = keys], 1))

getHash(T, h, f) == sha1(rawBytes(T, h, f, 1))

(***************************************************************************)
(* recordList / recordMap (src/please.md:31-168)                           *)
(*                                                                         *)
(* A recordList is a function from hashes to records [index, otm], otm     *)
(* mapping each one-to-many field name to the recordList of that child.    *)
(***************************************************************************)
EmptyRecordList == <<>>

\* the record-keeping part of insert (src/please.md:82-94): the record gets
\* index len(rl) and, for every one-to-many child of the entry, a fresh
\* recordList into which that child is inserted with rv = nil
RECURSIVE insertRecord(_, _, _, _)
insertRecord(T, h, rl, f) ==
    (getHash(T, h, f) :>
        [index |-> Cardinality(DOMAIN rl),
         otm |-> [t \in DOMAIN f.m |-> insertRecord(T, h, EmptyRecordList, f.m[t])]])
    @@ rl

\* recordList.insert with rv # nil (src/please.md:74-95): append *rv to the
\* slice behind the address, then record the entry
insert(T, rl, f, sa, mem) ==
    LET m1 == AppendSlice(mem, sa, Load(mem.heap, f.obj))
    IN  [rl |-> insertRecord(T, m1.heap, rl, f), mem |-> m1, ok |-> TRUE]

\* recordList.merge (src/please.md:101-120).  Returns the recordList, the
\* memory and ok = FALSE when the call panics (reflect's Index out of range)
RECURSIVE merge(_, _, _, _, _)
RECURSIVE mergeChildren(_, _, _, _, _, _)
merge(T, rl, f, sa, mem) ==
    IF isNil(f) THEN [rl |-> rl, mem |-> mem, ok |-> TRUE]
    ELSE
      LET hash == getHash(T, mem.heap, f)
      IN  IF hash \notin DOMAIN rl THEN insert(T, rl, f, sa, mem)
          ELSE
            LET rec == rl[hash]
                hdr == LoadSlice(mem, sa)
            IN  IF rec.index >= hdr.len
                THEN [rl |-> rl, mem |-> mem, ok |-> FALSE]
                ELSE
                  LET match == Addr(hdr.arr, rec.index + 1, <<>>, "")
                      r == mergeChildren(T, rec, f, match, mem, 1)
                  IN  [rl |-> [rl EXCEPT ![hash] = r.rec], mem |-> r.mem, ok |-> r.ok]

\* the loop over entry.oneToManys (src/please.md:113-119), from child j on
mergeChildren(T, rec, f, match, mem, j) ==
    LET tags == TagsOf(T, f.n, "otm")
    IN  IF j > Len(tags) THEN [rec |-> rec, mem |-> mem, ok |-> TRUE]
        ELSE
          LET fieldName == tags[j]
              childSlice == [match EXCEPT !.tag = fieldName]
              r == merge(T, rec.otm[fieldName], f.m[fieldName], childSlice, mem)
              rec1 == [rec EXCEPT !.otm[fieldName] = r.rl]
          IN  \* fieldByTag returns nil and *nil panics (src/please.md:114)
              IF fieldName \notin DOMAIN Load(mem.heap, match).m
              THEN [rec |-> rec, mem |-> mem, ok |-> FALSE]
              ELSE IF ~r.ok THEN [rec |-> rec1, mem |-> r.mem, ok |-> FALSE]
              ELSE mergeChildren(T, rec1, f, match, r.mem, j + 1)


(***************************************************************************)
(* Target types and rows                                                   *)
(***************************************************************************)
\* a user with a one-to-one role behind a pointer (compare TestUser and
\* TestRole, src/scan_test.go:53-70) and a field without a goscanql tag
TypesPointer ==
    [User |-> <<Field("id", Prim("int")),
                Field("", Prim("int")),
                Field("role", Ptr(Struct("Role")))>>,
     Role |-> <<Field("title", Prim("int"))>>]

\* a user with a one-to-one home held by value
TypesValue ==
    [User |-> <<Field("id", Prim("int")),
                Field("home", Struct("Home"))>>,
     Home |-> <<Field("city", Prim("string"))>>]

\* a user with vehicles, each with mediums (compare TestUser, TestVehicle
\* and TestVehicleMedium, src/scan_test.go:53-82)
TypesOneToMany ==
    [User |-> <<Field("id", Prim("int")),
                Field("vehicle", SliceOf(Struct("Vehicle")))>>,
     Vehicle |-> <<Field("type", Prim("int")),
                   Field("medium", SliceOf(Struct("Medium")))>>,
     Medium |-> <<Field("name", Prim("int"))>>]

Schemas == {TypesPointer, TypesValue, TypesOneToMany}

\* the columns a struct binds: <<name, kind>> in declaration order
RECURSIVE ColumnsOf(_, _, _, _)
ColumnsOf(T, n, prefix, i) ==
    IF i > Len(T[n]) THEN <<>>
    ELSE LET fld == T[n][i]
             rt == getPointerRootType(fld.ty)
             name == buildReferenceName(prefix, fld.tag)
             here == IF ~isGoscanqlField(fld) THEN <<>>
                     ELSE IF rt.k = "struct" THEN ColumnsOf(T, rt.n, name, 1)
                     ELSE IF rt.k = "slice"
                          THEN ColumnsOf(T, getPointerRootType(rt.e[1]).n, name, 1)
                     ELSE << <<name, rt.k>> >>
         IN  here \o ColumnsOf(T, n, prefix, i + 1)

\* the values a column of a kind can hold in a row; nil is SQL NULL
RawOf(k) ==
    IF k = "string"
    THEN {[nil |-> TRUE, v |-> ""], [nil |-> FALSE, v |-> ""]}
         \cup {[nil |-> FALSE, v |-> "s" \o ToString(i)] : i \in 1..MaxVal}
    ELSE {[nil |-> TRUE, v |-> 0]} \cup {[nil |-> FALSE, v |-> i] : i \in 0..MaxVal}

RECURSIVE RowsOver(_)
RowsOver(cols) ==
    IF cols = <<>> THEN {<<>>}
    ELSE {(Head(cols)[1] :> v) @@ r : v \in RawOf(Head(cols)[2]), r \in RowsOver(Tail(cols))}

RowsOf(T) == RowsOver(ColumnsOf(T, "User", "", 1))

(***************************************************************************)
(* scanRows (src/goscanql.go:305-338)                                      *)
(***************************************************************************)
Init ==
    /\ types \in Schemas
    /\ root = "User"
    /\ heap = <<>>
    /\ entries = EmptySlice
    /\ hashTable = EmptyRecordList
    /\ rows = <<>>
    /\ entry = NoFields
    /\ pc = "next"
    /\ vres = NotRun
    /\ target = Struct(root)
    /\ bound = <<>>
    /\ digests = <<>>
    /\ api = "RowsToStructs"
    /\ stack = <<>>
    /\ cursor = OpenCursor
    /\ ret = NoReturn

\* fields.scan with the first error of the callback taken for success
scanIgnoringFirstError(T, h, f, row, fail) ==
    LET f1 == scanBytes(T, f, "", row)
        h1 == scanValues(T, h, f1, "", row, 1)
    IN  IF fail.pass = 2 THEN [h |-> h, f |-> f1, err |-> fail.err, scans |-> 2]
        ELSE [h |-> emptyNilFields(T, h1, f1), f |-> f1, err |-> NoError, scans |-> 2]

\* fields.scan (src/fields.go:340-359) on the fields of a fresh instance:
\* the heap, the fields, the error and the number of calls of the callback
scan(T, h, f, row, fail) ==
    LET f1 == scanBytes(T, f, "", row)
        h1 == scanValues(T, h, f1, "", row, 1)
    IN  IF fail.pass = 1 THEN [h |-> h, f |-> f, err |-> fail.err, scans |-> 1]
        ELSE IF fail.pass = 2 THEN [h |-> h, f |-> f1, err |-> fail.err, scans |-> 2]
        ELSE [h |-> emptyNilFields(T, h1, f1), f |-> f1, err |-> NoError, scans |-> 2]

\* rows.Next() yields a row: entry := new(T), newFields(entry), fields.scan
\* (src/goscanql.go:320-332)
ScanRow ==
    /\ pc = "next"
    /\ Len(rows) < MaxRows
    /\ \E row \in RowsOf(types) :
         LET h0 == Append(heap, [cap |-> 1, data |-> <<ZeroStruct(types, root)>>])
             b == newFields(types, h0, root, Addr(Len(h0), 1, <<>>, ""),
                            FALSE, NoAddr, FALSE)
             r == scan(types, b.h, b.f, row, NoFailure)
         IN  /\ heap' = r.h
             /\ entry' = r.f
             /\ rows' = Append(rows, row)
    /\ pc' = "merge"
    /\ UNCHANGED <<types, root, entries, hashTable, vres, target, bound, digests,
                   api, stack, cursor, ret>>

\* result.merge(fields) (src/goscanql.go:334, src/please.md:125-128)
MergeRow ==
    /\ pc = "merge"
    /\ LET r == merge(types, hashTable, entry, RootSlice, Mem(heap, entries))
       IN  /\ heap' = r.mem.heap
           /\ entries' = r.mem.entries
           /\ hashTable' = r.rl
           /\ pc' = IF r.ok THEN "next" ELSE "panic"
    /\ UNCHANGED <<types, root, rows, entry, vres, target, bound, digests,
                   api, stack, cursor, ret>>

\* rows.Next() reports the end of the rows: return result.entries
\* (src/goscanql.go:337)
Return ==
    /\ pc = "next"
    /\ pc' = "done"
    /\ UNCHANGED <<types, root, heap, entries, hashTable, rows, entry, vres,
                   target, bound, digests, api, stack, cursor, ret>>

Next == ScanRow \/ MergeRow \/ Return

Spec == Init /\ [][Next]_vars

(***************************************************************************)
(* getHash on pairs of bound instances (src/fields.go:253-271)             *)
(***************************************************************************)
\* two string fields, the tag of the second a value the first can hold
TypesStrings ==
    [User |-> <<Field("id", Prim("string")), Field("s1", Prim("string"))>>]

HashSchemas == {TypesPointer, TypesOneToMany, TypesStrings}

InitHash ==
    /\ types \in HashSchemas
    /\ root = "User"
    /\ heap = <<>>
    /\ entries = EmptySlice
    /\ hashTable = EmptyRecordList
    /\ rows = <<>>
    /\ entry = NoFields
    /\ pc = "bind"
    /\ vres = NotRun
    /\ target = Struct(root)
    /\ bound = <<>>
    /\ digests = <<>>
    /\ api = "RowsToStructs"
    /\ stack = <<>>
    /\ cursor = OpenCursor
    /\ ret = NoReturn

\* new(T), newFields and fields.scan for one row (src/goscanql.go:320-332)
BindRow ==
    /\ pc = "bind"
    /\ Len(bound) < 2
    /\ \E row \in RowsOf(types) :
         LET h0 == Append(heap, [cap |-> 1, data |-> <<ZeroStruct(types, root)>>])
             b == newFields(types, h0, root, Addr(Len(h0), 1, <<>>, ""),
                            FALSE, NoAddr, FALSE)
             r == scan(types, b.h, b.f, row, NoFailure)
         IN  /\ heap' = r.h
             /\ bound' = Append(bound, r.f)
             /\ rows' = Append(rows, row)
    /\ UNCHANGED <<types, root, entries, hashTable, entry, pc, vres, target, digests,
                   api, stack, cursor, ret>>

\* entry.getHash() of both trees (src/please.md:106)
HashBound ==
    /\ pc = "bind"
    /\ Len(bound) = 2
    /\ digests' = [i \in DOMAIN bound |-> getHash(types, heap, bound[i])]
    /\ pc' = "hashed"
    /\ UNCHANGED <<types, root, heap, entries, hashTable, rows, entry, vres,
                   target, bound, api, stack, cursor, ret>>

NextHash == BindRow \/ HashBound

SpecHash == InitHash /\ [][NextHash]_vars

(***************************************************************************)
(* validateType (src/validator.go:1-263)                                   *)
(*                                                                         *)
(* An error is the name of the function that made it and the type its     *)
(* message prints with t.String(); NoError is the nil error.               *)
(***************************************************************************)
isStruct(t) ==
    LET r == getPointerRootType(t)
    IN  IF r.k = "struct" THEN NoError ELSE Errorf("isStruct", r)

isNotArray(t) ==
    LET r == getPointerRootType(t)
    IN  IF r.k # "array" THEN NoError ELSE Errorf("isNotArray", r)

isNotMap(t) ==
    LET r == getPointerRootType(t)
    IN  IF r.k # "map" THEN NoError ELSE Errorf("isNotMap", r)

isNotMultidimensionalSlice(t) ==
    LET r == getPointerRootType(t)
    IN  IF r.k # "slice" THEN NoError
        ELSE IF getPointerRootType(r.e[1]).k # "slice" THEN NoError
        ELSE Errorf("isNotMultidimensionalSlice", r)

structValidators == <<"isStruct">>
fieldValidators == <<"isNotArray", "isNotMap", "isNotMultidimensionalSlice">>

\* the call validator(t) of a validator held in one of the two lists
validator(f, t) ==
    CASE f = "isStruct" -> isStruct(t)
      [] f = "isNotArray" -> isNotArray(t)
      [] f = "isNotMap" -> isNotMap(t)
      [] f = "isNotMultidimensionalSlice" -> isNotMultidimensionalSlice(t)

\* hasCycle with the path set never reduced: the crawl from field i of
\* struct n, returning the verdict and the set it leaves behind
RECURSIVE crawlKeepingPath(_, _, _, _)
crawlKeepingPath(T, n, m, i) ==
    IF i > Len(T[n]) THEN [cyclic |-> FALSE, m |-> m]
    ELSE
      LET fieldType == getPointerRootType(getSliceRootType(T[n][i].ty))
      IN  IF ~isGoscanqlField(T[n][i]) \/ fieldType.k # "struct"
          THEN crawlKeepingPath(T, n, m, i + 1)
          ELSE IF fieldType.n \in m THEN [cyclic |-> TRUE, m |-> m]
          ELSE LET r == crawlKeepingPath(T, fieldType.n, m \cup {fieldType.n}, 1)
               IN  IF r.cyclic THEN r ELSE crawlKeepingPath(T, n, r.m, i + 1)

hasCycleKeepingPath(T, n, m) == crawlKeepingPath(T, n, m \cup {n}, 1).cyclic

\* hasCycle (src/validator.go:181-211): t joins the path set m for the
\* duration of the call (the deferred delete), hasCycleFields is the loop
\* over the fields of t from field i on
RECURSIVE hasCycle(_, _, _)
RECURSIVE hasCycleFields(_, _, _, _)
hasCycle(T, n, m) == hasCycleFields(T, n, m \cup {n}, 1)

hasCycleFields(T, n, m, i) ==
    IF i > Len(T[n]) THEN FALSE
    ELSE
      LET fieldType == getPointerRootType(getSliceRootType(T[n][i].ty))
      IN  IF ~isGoscanqlField(T[n][i]) THEN hasCycleFields(T, n, m, i + 1)
          ELSE IF fieldType.k # "struct" THEN hasCycleFields(T, n, m, i + 1)
          ELSE IF fieldType.n \in m THEN TRUE
          ELSE IF hasCycle(T, fieldType.n, m) THEN TRUE
          ELSE hasCycleFields(T, n, m, i + 1)

\* src/validator.go:159-173
verifyNoCycles(T, t) ==
    LET r == getPointerRootType(t)
    IN  IF r.k # "struct" THEN NoError
        ELSE IF ~hasCycle(T, r.n, {}) THEN NoError
        ELSE Errorf("verifyNoCycles", r)

\* src/validator.go:227-263; traverseFields is the loop over the fields of
\* struct n from field i on
RECURSIVE traverseType(_, _, _)
RECURSIVE traverseFields(_, _, _, _)
\* traverseType without the descent into the elements of a slice
\* (src/validator.go:238-240)
traverseTypeNotIntoSlices(T, t, f) ==
    LET r == getPointerRootType(t)
        err == validator(f, r)
    IN  IF err # NoError THEN err
        ELSE IF r.k # "struct" THEN NoError
        ELSE traverseFields(T, r.n, f, 1)

traverseType(T, t, f) ==
    LET r == getPointerRootType(t)
        err == validator(f, r)
    IN  IF err # NoError THEN err
        ELSE IF r.k = "slice" THEN traverseType(T, getSliceRootType(r), f)
        ELSE IF r.k # "struct" THEN NoError
        ELSE traverseFields(T, r.n, f, 1)

traverseFields(T, n, f, i) ==
    IF i > Len(T[n]) THEN NoError
    ELSE IF ~isGoscanqlField(T[n][i]) THEN traverseFields(T, n, f, i + 1)
    ELSE LET err == traverseType(T, T[n][i].ty, f)
         IN  IF err # NoError THEN err ELSE traverseFields(T, n, f, i + 1)

\* the loop over structValidators (src/validator.go:94-99), from i on
RECURSIVE runStructValidators(_, _)
runStructValidators(t, i) ==
    IF i > Len(structValidators) THEN NoError
    ELSE LET err == validator(structValidators[i], t)
         IN  IF err # NoError THEN err ELSE runStructValidators(t, i + 1)

\* the loop over fieldValidators (src/validator.go:110-115), from i on
RECURSIVE runFieldValidators(_, _, _)
runFieldValidators(T, t, i) ==
    IF i > Len(fieldValidators) THEN NoError
    ELSE LET err == traverseType(T, t, fieldValidators[i])
         IN  IF err # NoError THEN err ELSE runFieldValidators(T, t, i + 1)

\* src/validator.go:87-118
validateType(T, t) ==
    LET e1 == runStructValidators(t, 1)
        e2 == verifyNoCycles(T, t)
    IN  IF e1 # NoError THEN e1
        ELSE IF e2 # NoError THEN e2
        ELSE runFieldValidators(T, t, 1)

\* the types a field of a validated struct is drawn from: its type and
\* whether it carries a goscanql tag
FieldPool ==
    {[ty |-> ty, tagged |-> TRUE] :
        ty \in {Prim("int"),
                Ptr(Struct("A")), Ptr(Struct("B")), Ptr(Struct("C")),
                SliceOf(Struct("A")), SliceOf(Ptr(Struct("B"))),
                Struct("B"), Struct("C"),
                ArrayOf(Ptr(Struct("A"))), MapOf(Prim("int")),
                SliceOf(SliceOf(Struct("A"))),
                SliceOf(Ptr(ArrayOf(Prim("int")))),
                Named("arrayScanner", ArrayOf(Prim("string"))),
                Prim("func"), Prim("chan"), Prim("interface")}}
    \cup {[ty |-> Ptr(Struct("A")), tagged |-> FALSE]}

\* the structs of at most k fields over the pool; field i is tagged fi
FieldLists(k) ==
    {[i \in DOMAIN q |-> Field(IF q[i].tagged THEN "f" \o ToString(i) ELSE "", q[i].ty)] :
        q \in UNION {[1..len -> FieldPool] : len \in 0..k}}

\* Go compiles no struct that holds itself by value
Compilable(T) ==
    \A n \in DOMAIN T : \A i \in DOMAIN T[n] : T[n][i].ty # Struct(n)

TypeGraphs ==
    {T \in {[A |-> fa, B |-> fb, C |-> <<Field("id", Prim("int"))>>] :
               fa \in FieldLists(MaxFields), fb \in FieldLists(MaxInner)} :
        Compilable(T)}

Targets == {Struct("A"), Ptr(Struct("A")), Prim("int")}

InitValidate ==
    /\ types \in TypeGraphs
    /\ root = "A"
    /\ target \in Targets
    /\ heap = <<>>
    /\ entries = EmptySlice
    /\ hashTable = EmptyRecordList
    /\ rows = <<>>
    /\ entry = NoFields
    /\ pc = "validate"
    /\ vres = NotRun
    /\ bound = <<>>
    /\ digests = <<>>
    /\ api = "RowsToStructs"
    /\ stack = <<>>
    /\ cursor = OpenCursor
    /\ ret = NoReturn

\* err := validateType[T]() (src/goscanql.go:307-310)
Validate ==
    /\ pc = "validate"
    /\ vres' = validateType(types, target)
    /\ pc' = "validated"
    /\ UNCHANGED <<types, root, heap, entries, hashTable, rows, entry, target,
                   bound, digests, api, stack, cursor, ret>>

NextValidate == Validate

SpecValidate == InitValidate /\ [][NextValidate]_vars

(***************************************************************************)
(* validateType call by call (src/validator.go:87-263)                     *)
(*                                                                         *)
(* stack holds the frames of the calls in progress: at the bottom the      *)
(* frame of validateType, i its position in fieldValidators, above it the  *)
(* frames of hasCycle (t the struct, i the field the loop is at) or of     *)
(* traverseType (t the type, i the field the loop is at, 0 before f(t)).   *)
(***************************************************************************)
MaxDepth == 6

Frame(fn, t, i) == [fn |-> fn, t |-> t, i |-> i]

\* the field types the type graphs of the stepwise validation draw from
CrawlPool ==
    {p \in FieldPool :
        p.ty \in {Prim("int"), Ptr(Struct("A")), Ptr(Struct("B")),
                  SliceOf(Struct("A")), SliceOf(Ptr(Struct("B"))), Struct("C"),
                  ArrayOf(Ptr(Struct("A"))), SliceOf(SliceOf(Struct("A")))}}

CrawlGraphs ==
    {T \in TypeGraphs :
        \A n \in DOMAIN T : \A i \in DOMAIN T[n] :
            \E p \in CrawlPool : p.ty = T[n][i].ty /\ p.tagged = (T[n][i].tag # "")}

InitCrawl ==
    /\ types \in CrawlGraphs
    /\ root = "A"
    /\ target \in Targets
    /\ heap = <<>>
    /\ entries = EmptySlice
    /\ hashTable = EmptyRecordList
    /\ rows = <<>>
    /\ entry = NoFields
    /\ pc = "validate"
    /\ vres = NotRun
    /\ bound = <<>>
    /\ digests = <<>>
    /\ api = "RowsToStructs"
    /\ stack = <<>>
    /\ cursor = OpenCursor
    /\ ret = NoReturn

\* validateType returns err
Returns(err) ==
    /\ vres' = err
    /\ stack' = <<>>
    /\ pc' = "validated"

\* a call one level deeper; a stack beyond MaxDepth stands for a recursion
\* that does not end
Calls(st, frame) ==
    IF Len(st) >= MaxDepth
    THEN /\ pc' = "overflow"
         /\ UNCHANGED <<stack, vres>>
    ELSE /\ stack' = Append(st, frame)
         /\ UNCHANGED <<pc, vres>>

\* a path set that holds nothing
noPath(st) == {}

\* the map m of hasCycle: the structs of the calls in progress, each added
\* on entry and deleted on return (src/validator.go:183-184)
path(st) == {st[k].t.n : k \in {j \in DOMAIN st : st[j].fn = "hasCycle"}}

\* the structValidators and the entry into verifyNoCycles
\* (src/validator.go:94-104, 159-167)
CrawlStart ==
    /\ pc = "validate"
    /\ LET e1 == runStructValidators(target, 1)
           r == getPointerRootType(target)
       IN  IF e1 # NoError THEN Returns(e1)
           ELSE /\ stack' = <<Frame("validateType", target, 0), Frame("hasCycle", r, 1)>>
                /\ pc' = "cycles"
                /\ UNCHANGED vres
    /\ UNCHANGED <<types, root, heap, entries, hashTable, rows, entry, target,
                   bound, digests, api, cursor, ret>>

\* one turn of the loop of the innermost hasCycle (src/validator.go:186-210)
HasCycleStep ==
    /\ pc = "cycles"
    /\ LET top == stack[Len(stack)]
           rest == SubSeq(stack, 1, Len(stack) - 1)
           n == top.t.n
           next == [stack EXCEPT ![Len(stack)].i = @ + 1]
       IN  IF top.i > Len(types[n])
           THEN \* return false
                IF rest[Len(rest)].fn = "hasCycle"
                THEN /\ stack' = [rest EXCEPT ![Len(rest)].i = @ + 1]
                     /\ UNCHANGED <<pc, vres>>
                ELSE \* verifyNoCycles returns nil: the first fieldValidator
                     /\ stack' = <<Frame("validateType", target, 1),
                                   Frame("traverseType", target, 0)>>
                     /\ pc' = "shapes"
                     /\ UNCHANGED vres
           ELSE LET fld == types[n][top.i]
                    fieldType == getPointerRootType(getSliceRootType(fld.ty))
                IN  IF ~isGoscanqlField(fld) \/ fieldType.k # "struct"
                    THEN stack' = next /\ UNCHANGED <<pc, vres>>
                    ELSE IF fieldType.n \in path(stack)
                    THEN \* return true, up to verifyNoCycles
                         Returns(Errorf("verifyNoCycles", getPointerRootType(target)))
                    ELSE Calls(stack, Frame("hasCycle", fieldType, 1))
    /\ UNCHANGED <<types, root, heap, entries, hashTable, rows, entry, target,
                   bound, digests, api, cursor, ret>>

\* the stack after the innermost traverseType returned nil
TraverseReturns ==
    LET rest == SubSeq(stack, 1, Len(stack) - 1)
        below == rest[Len(rest)]
    IN  IF below.fn = "traverseType"
        THEN /\ stack' = [rest EXCEPT ![Len(rest)].i = @ + 1]
             /\ UNCHANGED <<pc, vres>>
        ELSE IF below.i = Len(fieldValidators) THEN Returns(NoError)
        ELSE /\ stack' = <<Frame("validateType", target, below.i + 1),
                           Frame("traverseType", target, 0)>>
             /\ UNCHANGED <<pc, vres>>

\* one step of the innermost traverseType (src/validator.go:227-263)
TraverseStep ==
    /\ pc = "shapes"
    /\ LET top == stack[Len(stack)]
           f == fieldValidators[stack[1].i]
           r == getPointerRootType(top.t)
       IN  IF top.i = 0
           THEN LET err == validator(f, r)
                IN  IF err # NoError THEN Returns(err)
                    ELSE IF r.k = "slice"
                    THEN \* return traverseType(getSliceRootType(t), f)
                         /\ stack' = [stack EXCEPT ![Len(stack)] =
                                         Frame("traverseType", getSliceRootType(r), 0)]
                         /\ UNCHANGED <<pc, vres>>
                    ELSE IF r.k # "struct" THEN TraverseReturns
                    ELSE /\ stack' = [stack EXCEPT ![Len(stack)].i = 1]
                         /\ UNCHANGED <<pc, vres>>
           ELSE IF top.i > Len(types[r.n]) THEN TraverseReturns
           ELSE IF ~isGoscanqlField(types[r.n][top.i])
           THEN /\ stack' = [stack EXCEPT ![Len(stack)].i = @ + 1]
                /\ UNCHANGED <<pc, vres>>
           ELSE Calls(stack, Frame("traverseType", types[r.n][top.i].ty, 0))
    /\ UNCHANGED <<types, root, heap, entries, hashTable, rows, entry, target,
                   bound, digests, api, cursor, ret>>

NextCrawl == CrawlStart \/ HasCycleStep \/ TraverseStep

\* the calls are made one after the other by one goroutine
SpecCrawl == InitCrawl /\ [][NextCrawl]_vars /\ WF_vars(NextCrawl)

(***************************************************************************)
(* The output as the caller sees it: slices dereferenced to sequences      *)
(***************************************************************************)
RECURSIVE View(_, _)
RECURSIVE ViewSlice(_, _)
View(h, v) ==
    IF v.nil THEN v
    ELSE [nil |-> FALSE, s |-> v.s,
          o |-> [t \in DOMAIN v.o |-> View(h, v.o[t])],
          m |-> [t \in DOMAIN v.m |-> ViewSlice(h, v.m[t])]]

ViewSlice(h, hdr) == [i \in 1..hdr.len |-> View(h, h[hdr.arr].data[i])]

Output == ViewSlice(heap, entries)


(***************************************************************************)
(* RowsToStructs and RowsToStruct as a whole (src/goscanql.go:305-363)     *)
(***************************************************************************)
\* a struct that refers to itself, a struct with an array, and a struct
\* two of whose children carry the same tag
TypesCyclic ==
    [User |-> <<Field("id", Prim("int")), Field("friend", Ptr(Struct("User")))>>]

TypesArray ==
    [User |-> <<Field("id", Prim("int")), Field("pin", ArrayOf(Prim("int")))>>]

TypesCollision ==
    [User |-> <<Field("id", Prim("int")),
                Field("role", Ptr(Struct("Role"))),
                Field("role", SliceOf(Struct("Role")))>>,
     Role |-> <<Field("title", Prim("int"))>>]

CallSchemas == {TypesPointer, TypesCyclic, TypesArray, TypesCollision}

\* the errors the driver can return from rows.Scan
DriverErrors == {Errorf("driver", Prim("conversion")), Errorf("driver", Prim("closed"))}

Failures ==
    {NoFailure} \cup {[pass |-> p, err |-> e] : p \in {1, 2}, e \in DriverErrors}

\* returned values: a nil slice, a slice, the zero value of T, one T
Value(kind, v) == [kind |-> kind, v |-> v]
NilValue == Value("nil", <<>>)
ZeroValue == Value("zero", <<>>)

\* what the entry point makes of the result of scanRows
\* (src/goscanql.go:342-363)
entryPoint(a, val, err) ==
    IF a = "RowsToStructs" THEN [val |-> val, err |-> err]
    ELSE IF err # NoError THEN [val |-> ZeroValue, err |-> err]
    ELSE IF Len(val.v) # 1
    THEN [val |-> ZeroValue, err |-> Errorf("RowsToStruct", Prim(ToString(Len(val.v))))]
    ELSE [val |-> Value("one", <<val.v[1]>>), err |-> NoError]

InitCall ==
    /\ types \in CallSchemas
    /\ root = "User"
    /\ target = Struct(root)
    /\ api \in {"RowsToStructs", "RowsToStruct"}
    /\ stack = <<>>
    /\ heap = <<>>
    /\ entries = EmptySlice
    /\ hashTable = EmptyRecordList
    /\ rows = <<>>
    /\ entry = NoFields
    /\ pc = "validate"
    /\ vres = NotRun
    /\ bound = <<>>
    /\ digests = <<>>
    /\ cursor = OpenCursor
    /\ ret = NoReturn

\* if err := validateType(zero); err != nil { panic(err) }
\* (src/goscanql.go:309-311)
CallValidate ==
    /\ pc = "validate"
    /\ vres' = validateType(types, target)
    /\ pc' = IF vres' = NoError THEN "next" ELSE "panic"
    /\ UNCHANGED <<types, root, heap, entries, hashTable, rows, entry, target,
                   bound, digests, api, stack, cursor, ret>>

\* rows.Next() yields a row: new(T), newFields, fields.scan with a callback
\* that may fail (src/goscanql.go:320-332)
CallScanRow ==
    /\ pc = "next"
    /\ cursor.status = "open"
    /\ Len(rows) < MaxRows
    /\ \E row \in RowsOf(types), fail \in Failures :
         LET h0 == Append(heap, [cap |-> 1, data |-> <<ZeroStruct(types, root)>>])
             b == newFields(types, h0, root, Addr(Len(h0), 1, <<>>, ""),
                            FALSE, NoAddr, FALSE)
             r == scan(types, b.h, b.f, row, fail)
         IN  /\ rows' = Append(rows, row)
             /\ IF b.err # NoError
                THEN /\ heap' = b.h
                     /\ entry' = NoFields
                     /\ cursor' = cursor
                     /\ pc' = IF IsPanic(b.err) THEN "panic" ELSE "returned"
                     /\ ret' = IF IsPanic(b.err) THEN ret
                               ELSE entryPoint(api, NilValue, b.err)
                ELSE /\ heap' = r.h
                     /\ entry' = r.f
                     /\ cursor' = [cursor EXCEPT !.scans = @ + r.scans, !.last = fail]
                     /\ pc' = IF r.err # NoError THEN "returned" ELSE "merge"
                     /\ ret' = IF r.err # NoError
                               THEN entryPoint(api, NilValue, r.err)
                               ELSE ret
    /\ UNCHANGED <<types, root, entries, hashTable, vres, target, bound, digests, api, stack>>

\* rows.Next() returns false, the rows being exhausted or the source having
\* failed: return result.entries, nil (src/goscanql.go:320, 337)
CallEnd ==
    /\ pc = "next"
    /\ cursor.status = "open"
    /\ \E status \in {"exhausted", "failed"} :
          cursor' = [cursor EXCEPT !.status = status]
    /\ ret' = entryPoint(api, Value("slice", Output), NoError)
    /\ pc' = "returned"
    /\ UNCHANGED <<types, root, heap, entries, hashTable, rows, entry, vres,
                   target, bound, digests, api, stack>>

NextCall == CallValidate \/ CallScanRow \/ MergeRow \/ CallEnd

SpecCall == InitCall /\ [][NextCall]_vars

(***************************************************************************)
(* recordList.merge on entries of two struct types                         *)
(* (src/please.md:101-128)                                                 *)
(***************************************************************************)
\* two structs with the same scalar field, one of them with two
\* one-to-many children the other has not
TypesMismatch ==
    [User |-> <<Field("id", Prim("int")),
                Field("cars", SliceOf(Struct("Car"))),
                Field("pets", SliceOf(Struct("Pet")))>>,
     Guest |-> <<Field("id", Prim("int"))>>,
     Car |-> <<Field("plate", Prim("int"))>>,
     Pet |-> <<Field("name", Prim("int"))>>]

EntryTypes == {"User", "Guest"}

\* root is the element type of rm.entries
InitMerge ==
    /\ types = TypesMismatch
    /\ root \in EntryTypes
    /\ target = Struct(root)
    /\ heap = <<>>
    /\ entries = EmptySlice
    /\ hashTable = EmptyRecordList
    /\ rows = <<>>
    /\ entry = NoFields
    /\ pc = "next"
    /\ vres = NotRun
    /\ bound = <<>>
    /\ digests = <<>>
    /\ api = "merge"
    /\ stack = <<>>
    /\ cursor = OpenCursor
    /\ ret = NoReturn

\* newFields on a fresh instance of either type and fields.scan of a row
\* (src/fields.go:363-380, 340-359); target is the type of the instance
BindEntry ==
    /\ pc = "next"
    /\ Len(rows) < MaxRows
    /\ \E n \in EntryTypes :
         \E row \in RowsOver(ColumnsOf(types, n, "", 1)) :
           LET h0 == Append(heap, [cap |-> 1, data |-> <<ZeroStruct(types, n)>>])
               b == newFields(types, h0, n, Addr(Len(h0), 1, <<>>, ""),
                              FALSE, NoAddr, FALSE)
               r == scan(types, b.h, b.f, row, NoFailure)
           IN  /\ heap' = r.h
               /\ entry' = r.f
               /\ rows' = Append(rows, row)
               /\ target' = Struct(n)
    /\ pc' = "merge"
    /\ UNCHANGED <<types, root, entries, hashTable, vres, bound, digests,
                   api, stack, cursor, ret>>

\* rm.merge(entry) (src/please.md:125-128): reflect.Append panics on a value
\* of another type (src/please.md:79-80), merge returns nothing.  bound
\* keeps, per merged entry, its type and whether its hash was in the table
MergeEntry ==
    /\ pc = "merge"
    /\ LET hit == ~isNil(entry) /\ getHash(types, heap, entry) \in DOMAIN hashTable
           r == merge(types, hashTable, entry, RootSlice, Mem(heap, entries))
       IN  /\ bound' = Append(bound, [n |-> target.n, hit |-> hit])
           /\ IF target.n # root /\ ~isNil(entry) /\ ~hit
              THEN /\ pc' = "panic"
                   /\ UNCHANGED <<heap, entries, hashTable, ret>>
              ELSE /\ heap' = r.mem.heap
                   /\ entries' = r.mem.entries
                   /\ hashTable' = r.rl
                   /\ pc' = IF r.ok THEN "next" ELSE "panic"
                   /\ ret' = IF r.ok THEN [val |-> NoReturn.val, err |-> NoError]
                             ELSE ret
    /\ UNCHANGED <<types, root, rows, entry, vres, target, digests, api, stack, cursor>>

NextMerge == BindEntry \/ MergeEntry

SpecMerge == InitMerge /\ [][NextMerge]_vars

(***************************************************************************)
(* mapFieldsToColumns on the byte references of a bound tree               *)
(* (src/goscanql.go:287-303, src/fields.go:188-204)                        *)
(***************************************************************************)
MaxCols == 3

\* a reference of the tree: the node it belongs to, named by the prefix of
\* the node, and the field; a slot is a byteReference, a value a reference
\* into the instance, a sink the &[]byte{} made for column i
Slot(prefix, name) == [kind |-> "slot", at |-> prefix, field |-> name]
ValueRef(prefix, name) == [kind |-> "value", at |-> prefix, field |-> name]
Sink(i) == [kind |-> "sink", at |-> "", field |-> ToString(i)]

\* getByteReferences (src/fields.go:188-204): the byteReferences of every
\* node of the tree under their reference names
RECURSIVE getByteReferences(_, _)
RECURSIVE childByteReferences(_, _, _)
getByteReferences(f, prefix) ==
    LET own == [c \in {buildReferenceName(prefix, t) : t \in DOMAIN f.bytes} |->
                  Slot(prefix, CHOOSE t \in DOMAIN f.bytes :
                                   buildReferenceName(prefix, t) = c)]
    IN  childByteReferences(f, prefix, DOMAIN f.o \cup DOMAIN f.m) @@ own

childByteReferences(f, prefix, tags) ==
    IF tags = {} THEN <<>>
    ELSE LET t == CHOOSE x \in tags : TRUE
         IN  getByteReferences(Child(f, t), buildReferenceName(prefix, t))
             @@ childByteReferences(f, prefix, tags \ {t})

\* getFieldReferences (src/fields.go:168-186): the references of every node
\* of the tree that is not nil and has no nil node above it
RECURSIVE getFieldReferences(_, _)
RECURSIVE childFieldReferences(_, _, _)
getFieldReferences(f, prefix) ==
    IF isNil(f) THEN <<>>
    ELSE LET own == [c \in {buildReferenceName(prefix, t) : t \in Range(f.names)} |->
                       ValueRef(prefix, CHOOSE t \in Range(f.names) :
                                            buildReferenceName(prefix, t) = c)]
         IN  childFieldReferences(f, prefix, DOMAIN f.o \cup DOMAIN f.m) @@ own

childFieldReferences(f, prefix, tags) ==
    IF tags = {} THEN <<>>
    ELSE LET t == CHOOSE x \in tags : TRUE
         IN  getFieldReferences(Child(f, t), buildReferenceName(prefix, t))
             @@ childFieldReferences(f, prefix, tags \ {t})

\* the lower case of a column name
ToLower(c) ==
    IF c = "ID" THEN "id" ELSE IF c = "Role_Title" THEN "role_title" ELSE c

\* mapFieldsToColumns with the column looked up whatever its case
mapFieldsToColumnsAnyCase(cols, fields) ==
    [i \in DOMAIN cols |->
        IF ToLower(cols[i]) \in DOMAIN fields THEN fields[ToLower(cols[i])]
        ELSE Sink(i)]

\* mapFieldsToColumns (src/goscanql.go:287-303)
mapFieldsToColumns(cols, fields) ==
    [i \in DOMAIN cols |->
        IF cols[i] \in DOMAIN fields THEN fields[cols[i]] ELSE Sink(i)]

\* the names a cursor may give its columns
ColumnNames == {"id", "ID", "role_title", "Role_Title", "title", "role", "roletitle"}

CursorOver(cols) == [columns |-> cols, calls |-> <<>>] @@ OpenCursor

\* a fresh instance of User is bound; the cursor has any columns
InitColumns ==
    /\ types = TypesPointer
    /\ root = "User"
    /\ target = Struct(root)
    /\ LET h0 == <<[cap |-> 1, data |-> <<ZeroStruct(types, root)>>]>>
           b == newFields(types, h0, root, Addr(1, 1, <<>>, ""), FALSE, NoAddr, FALSE)
       IN  heap = b.h /\ entry = b.f
    /\ \E len \in 0..MaxCols : \E cols \in [1..len -> ColumnNames] :
          cursor = CursorOver(cols)
    /\ entries = EmptySlice
    /\ hashTable = EmptyRecordList
    /\ rows = <<>>
    /\ pc = "map"
    /\ vres = NotRun
    /\ bound = <<>>
    /\ digests = <<>>
    /\ api = "scan"
    /\ stack = <<>>
    /\ ret = NoReturn

\* what rows.Scan writes through a destination list: the value of the
\* last column of a name
RowOver(cols, vals) ==
    [c \in Range(cols) |->
        vals[CHOOSE i \in DOMAIN cols :
                 cols[i] = c /\ \A j \in DOMAIN cols : cols[j] = c => j <= i]]

\* fields.scan with the value references handed to the callback first
scanColumnsValuesFirst(T, h, f, cols, vals, fail) ==
    LET r == scan(T, h, f, RowOver(cols, vals), fail)
        byteRefs == mapFieldsToColumns(cols, getByteReferences(f, ""))
        refs == mapFieldsToColumns(cols, getFieldReferences(r.f, ""))
    IN  [calls |-> IF r.scans = 1 THEN <<refs>> ELSE <<refs, byteRefs>>] @@ r

\* fields.scan (src/fields.go:340-359) over a column list, with the
\* destination lists of the calls of the callback
scanColumns(T, h, f, cols, vals, fail) ==
    LET r == scan(T, h, f, RowOver(cols, vals), fail)
        byteRefs == mapFieldsToColumns(cols, getByteReferences(f, ""))
        refs == mapFieldsToColumns(cols, getFieldReferences(r.f, ""))
    IN  [calls |-> IF r.scans = 1 THEN <<byteRefs>> ELSE <<byteRefs, refs>>] @@ r

\* fields.scan(cols, rows.Scan) on one row of the cursor
ScanColumns ==
    /\ pc = "map"
    /\ \E vals \in [DOMAIN cursor.columns -> RawOf("int")], fail \in Failures :
         LET r == scanColumns(types, heap, entry, cursor.columns, vals, fail)
         IN  /\ heap' = r.h
             /\ entry' = r.f
             /\ rows' = <<RowOver(cursor.columns, vals)>>
             /\ cursor' = [cursor EXCEPT !.calls = r.calls, !.scans = r.scans,
                                         !.last = fail]
             /\ ret' = [val |-> NoReturn.val, err |-> r.err]
    /\ pc' = "mapped"
    /\ UNCHANGED <<types, root, entries, hashTable, vres, target, bound,
                   digests, api, stack>>

NextColumns == ScanColumns

SpecColumns == InitColumns /\ [][NextColumns]_vars

(***************************************************************************)
(* newFields on structs whose fields may share a tag                       *)
(* (src/fields.go:117-164, 363-496)                                        *)
(***************************************************************************)
MaxTagged == 3

\* a scalar, a one-to-one child and a one-to-many child under either tag
TaggedPool ==
    {Field(tag, ty) : tag \in {"a", "b"},
                      ty \in {Prim("int"), Ptr(Struct("Role")), SliceOf(Struct("Role"))}}

BindSchemas ==
    {[User |-> fs, Role |-> <<Field("title", Prim("int"))>>] :
        fs \in UNION {[1..len -> TaggedPool] : len \in 0..MaxTagged}}

InitBind ==
    /\ types \in BindSchemas
    /\ root = "User"
    /\ target = Struct(root)
    /\ heap = <<>>
    /\ entries = EmptySlice
    /\ hashTable = EmptyRecordList
    /\ rows = <<>>
    /\ entry = NoFields
    /\ pc = "bind"
    /\ vres = NotRun
    /\ bound = <<>>
    /\ digests = <<>>
    /\ api = "newFields"
    /\ stack = <<>>
    /\ cursor = OpenCursor
    /\ ret = NoReturn

\* entry := new(T); fields, err := newFields(entry) (src/goscanql.go:322-327);
\* ret is the error returned, and a panic ends the call
Bind ==
    /\ pc = "bind"
    /\ LET h0 == <<[cap |-> 1, data |-> <<ZeroStruct(types, root)>>]>>
           b == newFields(types, h0, root, Addr(1, 1, <<>>, ""), FALSE, NoAddr, FALSE)
       IN  /\ heap' = b.h
           /\ entry' = b.f
           /\ IF IsPanic(b.err)
              THEN pc' = "panic" /\ UNCHANGED ret
              ELSE pc' = "bound" /\ ret' = [val |-> NoReturn.val, err |-> b.err]
    /\ UNCHANGED <<types, root, entries, hashTable, rows, vres, target, bound,
                   digests, api, stack, cursor>>

NextBind == Bind

SpecBind == InitBind /\ [][NextBind]_vars

(***************************************************************************)
(* scanRows on a type whose one-to-one child holds a collection            *)
(* (compare TestUser, src/scan_test.go:53-82)                              *)
(***************************************************************************)
\* a user with a one-to-one role that has permissions
TypesNested ==
    [User |-> <<Field("id", Prim("int")),
                Field("role", Ptr(Struct("Role")))>>,
     Role |-> <<Field("title", Prim("int")),
                Field("perm", SliceOf(Struct("Perm")))>>,
     Perm |-> <<Field("name", Prim("int"))>>]

NestedSchemas == {TypesNested, TypesOneToMany}

InitNested ==
    /\ types \in NestedSchemas
    /\ root = "User"
    /\ heap = <<>>
    /\ entries = EmptySlice
    /\ hashTable = EmptyRecordList
    /\ rows = <<>>
    /\ entry = NoFields
    /\ pc = "next"
    /\ vres = NotRun
    /\ target = Struct(root)
    /\ bound = <<>>
    /\ digests = <<>>
    /\ api = "RowsToStructs"
    /\ stack = <<>>
    /\ cursor = OpenCursor
    /\ ret = NoReturn

SpecNested == InitNested /\ [][Next]_vars

(***************************************************************************)
(* scanRows on types with a struct whose annotated fields are all children *)
(* (src/fields.go:275-336, src/please.md:101-104)                          *)
(***************************************************************************)
\* a one-to-one group, behind a pointer, that has members and nothing else
TypesHollowPointer ==
    [User |-> <<Field("id", Prim("int")),
                Field("group", Ptr(Struct("Group")))>>,
     Group |-> <<Field("member", SliceOf(Struct("Member")))>>,
     Member |-> <<Field("name", Prim("int"))>>]

\* the same group held by value
TypesHollowValue ==
    [User |-> <<Field("id", Prim("int")),
                Field("group", Struct("Group"))>>,
     Group |-> <<Field("member", SliceOf(Struct("Member")))>>,
     Member |-> <<Field("name", Prim("int"))>>]

\* vehicles that have mediums and nothing else
TypesHollowMany ==
    [User |-> <<Field("id", Prim("int")),
                Field("vehicle", SliceOf(Struct("Vehicle")))>>,
     Vehicle |-> <<Field("medium", SliceOf(Struct("Medium")))>>,
     Medium |-> <<Field("name", Prim("int"))>>]

\* a root that has vehicles and nothing else
TypesHollowRoot ==
    [User |-> <<Field("vehicle", SliceOf(Struct("Vehicle")))>>,
     Vehicle |-> <<Field("type", Prim("int")),
                   Field("colour", Prim("int"))>>]

HollowSchemas ==
    {TypesHollowPointer, TypesHollowValue, TypesHollowMany, TypesHollowRoot}

InitHollow ==
    /\ types \in HollowSchemas
    /\ root = "User"
    /\ heap = <<>>
    /\ entries = EmptySlice
    /\ hashTable = EmptyRecordList
    /\ rows = <<>>
    /\ entry = NoFields
    /\ pc = "next"
    /\ vres = NotRun
    /\ target = Struct(root)
    /\ bound = <<>>
    /\ digests = <<>>
    /\ api = "RowsToStructs"
    /\ stack = <<>>
    /\ cursor = OpenCursor
    /\ ret = NoReturn

SpecHollow == InitHollow /\ [][Next]_vars

(***************************************************************************)
(* Reference notions the properties are stated with                        *)
(***************************************************************************)
\* the struct type of the elements of the one-to-many field tag of struct n
ElemType(T, n, tag) ==
    getPointerRootType(getPointerRootType(fieldByTag(T, n, tag).ty).e[1]).n

\* the fingerprint of a struct value of type n, as getHash forms it from
\* the fields of a binding
RECURSIVE valueBytes(_, _, _, _)
valueBytes(T, n, v, i) ==
    LET tags == TagsOf(T, n, "scalar")
    IN  IF i > Len(tags) THEN ""
        ELSE tags[i]
             \o Fmt(getPointerRootType(fieldByTag(T, n, tags[i]).ty).k, v.s[tags[i]])
             \o valueBytes(T, n, v, i + 1)

fingerprint(T, n, v) == sha1(valueBytes(T, n, v, 1))

\* the fingerprints of a viewed collection, level by level
RECURSIVE Shape(_, _, _)
Shape(T, n, q) ==
    [i \in DOMAIN q |->
        [fp |-> fingerprint(T, n, q[i]),
         m |-> [t \in DOMAIN q[i].m |-> Shape(T, ElemType(T, n, t), q[i].m[t])]]]

\* what a row says about the entity of type n under a column prefix:
\* whether it is present (some own column is not empty), its fingerprint
\* and the same for its one-to-many children
RECURSIVE RowEntity(_, _, _, _)
RowEntity(T, n, prefix, row) ==
    LET tags == TagsOf(T, n, "scalar")
        kind(t) == getPointerRootType(fieldByTag(T, n, t).ty).k
        col(t) == row[buildReferenceName(prefix, t)]
        val == [nil |-> FALSE,
                s |-> [t \in Range(tags) |->
                         IF col(t).nil THEN ZeroOf(kind(t)) ELSE col(t).v],
                o |-> <<>>, m |-> <<>>]
    IN  [present |-> \E t \in Range(tags) : RawBytes(kind(t), col(t)) # "",
         fp |-> fingerprint(T, n, val),
         m |-> [t \in Range(TagsOf(T, n, "otm")) |->
                  RowEntity(T, ElemType(T, n, t), buildReferenceName(prefix, t), row)]]

\* the collection a sequence of present row entities describes: one element
\* per fingerprint, in the order of first appearance, its children those of
\* all the entities with that fingerprint
RECURSIVE Expected(_)
Expected(ents) ==
    IF ents = <<>> THEN <<>>
    ELSE LET e == Head(ents)
             same == SelectSeq(ents, LAMBDA x : x.fp = e.fp)
             rest == SelectSeq(ents, LAMBDA x : x.fp # e.fp)
             kids(t) == SelectSeq([i \in DOMAIN same |-> same[i].m[t]],
                                  LAMBDA x : x.present)
         IN  <<[fp |-> e.fp, m |-> [t \in DOMAIN e.m |-> Expected(kids(t))]]>>
             \o Expected(rest)

RowEntities(rs) ==
    SelectSeq([i \in DOMAIN rs |-> RowEntity(types, root, "", rs[i])],
              LAMBDA x : x.present)

\* every row yielded so far has been merged
Merged == pc \in {"next", "done"}

RECURSIVE NoDuplicates(_)
NoDuplicates(sh) ==
    /\ \A i, j \in DOMAIN sh : i # j => sh[i].fp # sh[j].fp
    /\ \A i \in DOMAIN sh : \A t \in DOMAIN sh[i].m : NoDuplicates(sh[i].m[t])

\* the columns of a row that feed the scalar fields of the struct of type n
\* bound under a column prefix
OwnRaw(T, n, prefix, row) ==
    [t \in Range(TagsOf(T, n, "scalar")) |-> row[buildReferenceName(prefix, t)]]

AllNull(raws) == \A t \in DOMAIN raws : raws[t].nil
Present(T, n, prefix, row) == RowEntity(T, n, prefix, row).present

\* the struct type behind the one-to-one field tag of struct n
OneType(T, n, tag) == getPointerRootType(fieldByTag(T, n, tag).ty).n

Last == rows[Len(rows)]
Earlier == SubSeq(rows, 1, Len(rows) - 1)

\* a present row entity and its present descendants are held by a collection
RECURSIVE Represented(_, _)
Represented(sh, e) ==
    \E i \in DOMAIN sh :
        /\ sh[i].fp = e.fp
        /\ \A t \in DOMAIN e.m : e.m[t].present => Represented(sh[i].m[t], e.m[t])


(***************************************************************************)
(* Properties                                                              *)
(***************************************************************************)

\* C1: after merging any sequence of rows no collection of the output, at
\* any depth, holds two elements with the same fingerprint.
C1_NoDuplicateFingerprints ==
    NoDuplicates(Shape(types, root, Output))

\* C2: every collection of the output lists its elements in the order in
\* which their fingerprints were first observed (under that parent) in the
\* rows merged so far.
C2_FirstObservedOrder ==
    Merged => Shape(types, root, Output) = Expected(RowEntities(rows))


\* C3: two rows with equal top-level scalar values whose one-to-one
\* children are both present and differ in content give two top-level
\* entities.
C3_OneToOneContentSplits ==
    (/\ Merged
     /\ Len(rows) = 2
     /\ Present(types, root, "", rows[1])
     /\ OwnRaw(types, root, "", rows[1]) = OwnRaw(types, root, "", rows[2])
     /\ \E t \in Range(TagsOf(types, root, "oto")) :
           LET c1 == OwnRaw(types, OneType(types, root, t), t, rows[1])
               c2 == OwnRaw(types, OneType(types, root, t), t, rows[2])
           IN  /\ Present(types, OneType(types, root, t), t, rows[1])
               /\ Present(types, OneType(types, root, t), t, rows[2])
               /\ c1 # c2)
    => Len(Output) = 2

C5_RepeatedRowIsNoOp ==
    [][(MergeRow /\ \E i \in DOMAIN Earlier : Earlier[i] = Last)
        => /\ pc' = "next"
           /\ ViewSlice(heap', entries') = Output
           /\ hashTable' = hashTable]_vars


\* the instance fields.scan has just filled
Instance == Load(heap, entry.obj)

\* the value a column leaves in a scalar field of kind k
Scanned(k, raw) == IF raw.nil THEN ZeroOf(k) ELSE raw.v

\* C8: after a row is scanned, a one-to-one child whose own columns are all
\* NULL is the nil pointer (pointer field) or the zero value (struct
\* field), and the present parent holds the values of its own columns.
C8_NullOneToOneIsAbsent ==
    (pc = "merge" /\ ~AllNull(OwnRaw(types, root, "", Last)))
    => /\ \A t \in Range(TagsOf(types, root, "oto")) :
            AllNull(OwnRaw(types, OneType(types, root, t), t, Last))
            => Instance.o[t] = IF fieldByTag(types, root, t).ty.k = "ptr"
                               THEN NilPtr
                               ELSE ZeroStruct(types, OneType(types, root, t))
       /\ \A t \in Range(TagsOf(types, root, "scalar")) :
            Instance.s[t] = Scanned(getPointerRootType(fieldByTag(types, root, t).ty).k,
                                    Last[t])

C8_Witness ==
    /\ pc = "merge"
    /\ types = TypesPointer
    /\ ~Last["id"].nil /\ Last["id"].v = 1
    /\ Last["role_title"].nil
    /\ Instance.o["role"] = NilPtr
    /\ Instance.s["id"] = 1

\* a row with a present parent of type n all of whose columns for the
\* one-to-many child t are NULL
ChildlessRow(T, n, t, row) ==
    /\ ~AllNull(OwnRaw(T, n, "", row))
    /\ AllNull(OwnRaw(T, ElemType(T, n, t), t, row))

\* C9: a present parent whose one-to-many child columns are all NULL has
\* that collection of length 0 after the scan; merging the row adds no
\* element to it in the output; a later row for the same parent with a
\* present child adds exactly that child.
C9_NullOneToManyIsEmpty ==
    \A t \in Range(TagsOf(types, root, "otm")) :
        /\ (pc = "merge" /\ ChildlessRow(types, root, t, Last))
           => Instance.m[t].len = 0
        /\ (pc # "merge" /\ Len(rows) = 1 /\ ChildlessRow(types, root, t, rows[1]))
           => /\ pc # "panic"
              /\ Len(Output) = 1
              /\ Len(Output[1].m[t]) = 0
        /\ (/\ pc # "merge" /\ Len(rows) = 2
            /\ ChildlessRow(types, root, t, rows[1])
            /\ OwnRaw(types, root, "", rows[2]) = OwnRaw(types, root, "", rows[1])
            /\ ~AllNull(OwnRaw(types, ElemType(types, root, t), t, rows[2])))
           => /\ pc # "panic"
              /\ Len(Output) = 1
              /\ Len(Output[1].m[t]) = 1
              /\ Shape(types, root, Output)[1].m[t][1].fp
                   = RowEntity(types, ElemType(types, root, t), t, rows[2]).fp


\* the instance behind the i-th bound tree, as a caller sees it
BoundValue(i) == View(heap, Load(heap, bound[i].obj))

\* C6: two bound entities equal in every scalar and one-to-one value have
\* equal fingerprints, whatever their one-to-many children hold.
C6_HashIgnoresOneToMany ==
    (/\ pc = "hashed"
     /\ BoundValue(1).s = BoundValue(2).s
     /\ BoundValue(1).o = BoundValue(2).o)
    => digests[1] = digests[2]

C6_Witness ==
    /\ pc = "hashed"
    /\ types = TypesOneToMany
    /\ ~isNil(bound[1]) /\ ~isNil(bound[2])
    /\ BoundValue(1).s = BoundValue(2).s
    /\ Len(BoundValue(1).m["vehicle"]) = 0
    /\ Len(BoundValue(2).m["vehicle"]) = 1
    /\ digests[1] = digests[2]

\* C7: two bound entities of one type with the same byte stream before
\* hashing agree on every scalar value and every one-to-one child value.
C7_EqualStreamsAgree ==
    (/\ pc = "hashed"
     /\ rawBytes(types, heap, bound[1], 1) = rawBytes(types, heap, bound[2], 1))
    => /\ BoundValue(1).s = BoundValue(2).s
       /\ BoundValue(1).o = BoundValue(2).o


\* the composite a field type leads to through pointers and collections
RECURSIVE Composite(_)
Composite(ty) == IF ty.k \in {"ptr", "slice"} THEN Composite(ty.e[1]) ELSE ty

\* the structs one annotated field away from struct n
Successors(T, n) ==
    {Composite(T[n][i].ty).n :
        i \in {j \in DOMAIN T[n] : T[n][j].tag # "" /\ Composite(T[n][j].ty).k = "struct"}}

\* the structs reached from a set of structs in one to k steps
RECURSIVE Within(_, _, _)
Within(T, S, k) ==
    IF k = 0 THEN {}
    ELSE LET next == UNION {Successors(T, n) : n \in S}
         IN  next \cup Within(T, next, k - 1)

Descendants(T, n) == Within(T, {n}, Cardinality(DOMAIN T))

\* some path of annotated fields from the target reaches a struct that is
\* already on the path
Revisits(T, t) ==
    /\ getPointerRootType(t).k = "struct"
    /\ \E n \in {getPointerRootType(t).n} \cup Descendants(T, getPointerRootType(t).n) :
          n \in Descendants(T, n)

\* C10: validateType returns the cycle error exactly when a path of
\* annotated fields, through pointers, slices and nested structs, reaches
\* a struct already on the path; a struct reached along two branches that
\* is not its own ancestor is accepted.
C10_CycleErrorIffRevisit ==
    pc = "validated" => (vres.err = "verifyNoCycles" <=> Revisits(types, target))

C10_Witness ==
    /\ pc = "validated"
    /\ target = Struct("A")
    /\ types["A"] = <<Field("f1", Ptr(Struct("B"))), Field("f2", Ptr(Struct("C")))>>
    /\ types["B"] = <<Field("f1", Ptr(Struct("C")))>>
    /\ ~Revisits(types, target)
    /\ vres = NoError


\* an array, a map or a slice of slices
Unsupported(ty) ==
    \/ ty.k \in {"array", "map"}
    \/ ty.k = "slice" /\ getPointerRootType(ty.e[1]).k = "slice"

\* the types a field type leads to through pointers and collections,
\* itself included
RECURSIVE Wrapped(_)
Wrapped(ty) ==
    {ty} \cup (IF ty.k \in {"ptr", "slice"} THEN Wrapped(ty.e[1]) ELSE {})

\* the types of the annotated fields reachable from the target through
\* pointers, collections and nested structs
ReachableFieldTypes(T, t) ==
    IF getPointerRootType(t).k # "struct" THEN {}
    ELSE LET ns == {getPointerRootType(t).n} \cup Descendants(T, getPointerRootType(t).n)
         IN  UNION {UNION {Wrapped(T[n][i].ty) :
                              i \in {j \in DOMAIN T[n] : T[n][j].tag # ""}} : n \in ns}

C12_ScannerTypesExempt ==
    (/\ pc = "validated"
     /\ getPointerRootType(target).k = "struct"
     /\ ~Revisits(types, target)
     /\ \E ty \in ReachableFieldTypes(types, target) :
           Unsupported(ty) /\ implementsScanner(ty)
     /\ \A ty \in ReachableFieldTypes(types, target) :
           Unsupported(ty) => implementsScanner(ty))
    => vres = NoError



\* two annotated children of one reachable struct carry the same tag
Collides(T, t) ==
    /\ getPointerRootType(t).k = "struct"
    /\ \E n \in {getPointerRootType(t).n} \cup Descendants(T, getPointerRootType(t).n) :
         \E i, j \in DOMAIN T[n] :
            /\ i # j
            /\ T[n][i].tag # "" /\ T[n][i].tag = T[n][j].tag
            /\ getPointerRootType(T[n][i].ty).k \in {"struct", "slice"}
            /\ getPointerRootType(T[n][j].ty).k \in {"struct", "slice"}

\* a target with an unsupported shape, an annotation collision or a cycle
Unusable(T, t) ==
    \/ Revisits(T, t)
    \/ \E ty \in ReachableFieldTypes(T, t) : Unsupported(ty) /\ ~implementsScanner(ty)
    \/ Collides(T, t)

\* C13: for an unusable target type (unsupported shape, annotation collision
\* or cycle) the entry point detects the schema error before any row of the
\* cursor is read: no row is taken, no instance is bound, the scan callback
\* is never called and nothing is merged.
C13_SchemaErrorBeforeRows ==
    Unusable(types, target)
        => /\ rows = <<>>
           /\ heap = <<>>
           /\ cursor.scans = 0
           /\ Len(Output) = 0
           /\ pc = "returned" => ret.err # NoError


\* C14: when the scan callback fails on a row, in the null-probe pass or in
\* the value pass, it is not called again, and the entry point returns
\* exactly the error of the callback with no collection, whatever was merged
\* from the rows before.
C14_ScanErrorReturnedAsIs ==
    cursor.last.pass # 0
        => /\ pc = "returned"
           /\ ret.err = cursor.last.err
           /\ ret.val = IF api = "RowsToStructs" THEN NilValue ELSE ZeroValue
           /\ cursor.scans = 2 * (Len(rows) - 1) + cursor.last.pass

C14_Witness ==
    /\ api = "RowsToStructs"
    /\ pc = "returned"
    /\ Len(rows) = 3
    /\ Len(Output) = 2
    /\ cursor.last.pass = 1
    /\ ret = [val |-> NilValue, err |-> Errorf("driver", Prim("closed"))]


\* C15: when the row source fails in mid-stream, the entry point reports the
\* failure as an error and returns no partial collection.
C15_SourceFailureReported ==
    (pc = "returned" /\ cursor.status = "failed" /\ Len(rows) >= 1)
        => /\ ret.err # NoError
           /\ ret.val.kind \in {"nil", "zero"}


\* what identifies the entity of type n a row describes under a column
\* prefix: its own columns and those of its one-to-one children
RECURSIVE Identity(_, _, _, _)
Identity(T, n, prefix, row) ==
    [s |-> OwnRaw(T, n, prefix, row),
     o |-> [t \in Range(TagsOf(T, n, "oto")) |->
              Identity(T, OneType(T, n, t), buildReferenceName(prefix, t), row)]]

\* the distinct top-level entities a sequence of rows describes
TopEntities(rs) ==
    {Identity(types, root, "", rs[i]) :
        i \in {j \in DOMAIN rs : Present(types, root, "", rs[j])}}

\* rows that agree on the top-level columns agree on which one-to-one
\* children they carry
SameChildrenPresent(rs) ==
    \A i, j \in DOMAIN rs :
        OwnRaw(types, root, "", rs[i]) = OwnRaw(types, root, "", rs[j])
            => \A t \in Range(TagsOf(types, root, "oto")) :
                  Present(types, OneType(types, root, t), t, rs[i])
                      <=> Present(types, OneType(types, root, t), t, rs[j])

\* C16: over a usable type and a cursor that is read to its end without a
\* failure, RowsToStruct returns the entity and no error exactly when the
\* rows describe one distinct top-level entity, and the zero value of T with
\* an error when they describe none or more than one.
C16_OneEntityOrError ==
    (/\ pc = "returned"
     /\ api = "RowsToStruct"
     /\ ~Unusable(types, target)
     /\ cursor.status = "exhausted"
     /\ cursor.last.pass = 0
     /\ SameChildrenPresent(rows))
    => IF Cardinality(TopEntities(rows)) = 1
       THEN ret.err = NoError /\ ret.val.kind = "one"
       ELSE ret.err # NoError /\ ret.val = ZeroValue


\* the error values the package declares for callers to compare with: none
Sentinels == {}

\* errors.Is on an error made by fmt.Errorf without %w: the value itself
Is(err, sentinel) == err = sentinel

\* C17: when RowsToStruct fails because the rows gave no entity or more than
\* one, the error is a named error of the package, one for "not found" and
\* another for "ambiguous", that the caller can compare with.
C17_CardinalityErrorIsNamed ==
    (pc = "returned" /\ api = "RowsToStruct" /\ ret.err.err = "RowsToStruct")
        => \E e \in Sentinels :
              /\ Is(ret.err, e)
              /\ e.err = IF ret.err.ty = Prim("0") THEN "not found" ELSE "ambiguous"


\* the one-to-many annotations of two struct types differ
Mismatch(T, a, b) == Range(TagsOf(T, a, "otm")) # Range(TagsOf(T, b, "otm"))

Unbindable(ty) == ty.k \in {"func", "chan", "interface"}

\* C19: validateType fails for every target with an annotated field,
\* reachable from it, whose type is a func, a chan or a non-empty interface
\* and does not implement Scanner.
C19_FuncChanInterfaceRejected ==
    (/\ pc = "validated"
     /\ \E ty \in ReachableFieldTypes(types, target) :
           Unbindable(ty) /\ ~implementsScanner(ty))
    => vres # NoError


\* C20: the fingerprint of a bound entity is the serialisation of its
\* content in the order its struct declares the fields, so that two bound
\* entities with the same scalar and one-to-one content, bound in distinct
\* instances with maps of their own, have the same fingerprint.
C20_FingerprintDeterministic ==
    pc = "hashed"
        => \A i, j \in DOMAIN bound :
              (/\ BoundValue(i).s = BoundValue(j).s
               /\ BoundValue(i).o = BoundValue(j).o)
              => digests[i] = fingerprint(types, root, BoundValue(j))

C20_Witness ==
    /\ pc = "hashed"
    /\ types = TypesStrings
    /\ bound[1].obj # bound[2].obj
    /\ BoundValue(1).s = [id |-> "s1", s1 |-> "s1"]
    /\ BoundValue(2).s = BoundValue(1).s
    /\ digests = <<"ids1s1s1", "ids1s1s1">>


\* the scalar fields a struct type binds, each with the prefix of its node,
\* read off the declarations
RECURSIVE DeclaredSlots(_, _, _)
DeclaredSlots(T, n, prefix) ==
    {Slot(prefix, t) : t \in Range(TagsOf(T, n, "scalar"))}
    \cup UNION {DeclaredSlots(T, OneType(T, n, t),
                    IF prefix = "" THEN t ELSE prefix \o "_" \o t) :
                 t \in Range(TagsOf(T, n, "oto"))}
    \cup UNION {DeclaredSlots(T, ElemType(T, n, t),
                    IF prefix = "" THEN t ELSE prefix \o "_" \o t) :
                 t \in Range(TagsOf(T, n, "otm"))}

\* the column a slot is registered under
ColumnOf(s) == IF s.at = "" THEN s.field ELSE s.at \o "_" \o s.field

\* C21: the destination list has one entry per column, in column order:
\* the slot registered under exactly the column's name when there is one,
\* otherwise a sink of its own; a slot whose name is no column is not in it.
C21_OneDestinationPerColumn ==
    pc = "mapped" =>
        LET cols == cursor.columns
            dest == cursor.calls[1]
            slots == DeclaredSlots(types, root, "")
        IN  /\ Len(dest) = Len(cols)
            /\ \A i \in DOMAIN cols :
                  IF \E s \in slots : ColumnOf(s) = cols[i]
                  THEN dest[i] \in slots /\ ColumnOf(dest[i]) = cols[i]
                  ELSE /\ dest[i].kind = "sink"
                       /\ \A j \in DOMAIN cols : j # i => dest[j] # dest[i]
            /\ \A s \in slots :
                  (\A i \in DOMAIN cols : cols[i] # ColumnOf(s))
                      => \A i \in DOMAIN dest : dest[i] # s

C21_Witness ==
    /\ pc = "mapped"
    /\ cursor.columns = <<"ID", "role_title", "title">>
    /\ cursor.calls[1] = <<Sink(1), Slot("role", "title"), Sink(3)>>


\* a recordList mirrors a collection of elements of type n: one record per
\* element, every index that of an element with the record's key as its
\* fingerprint, and the same for the one-to-many children of each element
RECURSIVE Mirrors(_, _, _, _)
Mirrors(T, n, rl, q) ==
    /\ Cardinality(DOMAIN rl) = Len(q)
    /\ \A hash \in DOMAIN rl :
          /\ rl[hash].index + 1 \in DOMAIN q
          /\ fingerprint(T, n, q[rl[hash].index + 1]) = hash
          /\ \A t \in DOMAIN rl[hash].otm :
                Mirrors(T, ElemType(T, n, t), rl[hash].otm[t],
                        q[rl[hash].index + 1].m[t])

\* C22: after any sequence of merges the shadow index mirrors the output at
\* every nesting level.
C22_IndexMirrorsOutput ==
    Merged => Mirrors(types, root, hashTable, Output)


\* C23: a merge that fails part-way leaves the output collection and the
\* shadow index exactly as they were before the row.
C23_FailedMergeChangesNothing ==
    [][(MergeEntry /\ pc' = "panic")
        => /\ ViewSlice(heap', entries') = Output
           /\ hashTable' = hashTable]_vars


\* the recordList kept for the one-to-many child t of the top-level entity
\* with fingerprint fp; empty while there is no such entity
ChildIndex(rl, fp, t) == IF fp \in DOMAIN rl THEN rl[fp].otm[t] ELSE EmptyRecordList

\* C24: the merge of a row whose top-level columns are all NULL changes
\* neither the output nor the shadow index, whatever its children carry;
\* and the merge of a row with a present top-level entity and an absent
\* one-to-many child leaves the index of that child's collection as it was.
C24_AbsentEntityIsNoOp ==
    [][(MergeRow /\ pc' = "next")
        => LET e == RowEntity(types, root, "", Last)
           IN  IF ~e.present
               THEN /\ ViewSlice(heap', entries') = Output
                    /\ hashTable' = hashTable
               ELSE \A t \in DOMAIN e.m :
                       ~e.m[t].present
                           => ChildIndex(hashTable', e.fp, t)
                                = ChildIndex(hashTable, e.fp, t)]_vars


\* collection q2 is collection q1 after appends only: the elements of q1
\* are where they were, with the scalar and one-to-one values they had, and
\* their one-to-many collections have themselves grown by appends only
RECURSIVE Extends(_, _)
Extends(q2, q1) ==
    /\ Len(q2) >= Len(q1)
    /\ \A i \in DOMAIN q1 :
          /\ q2[i].s = q1[i].s
          /\ q2[i].o = q1[i].o
          /\ \A t \in DOMAIN q1[i].m : Extends(q2[i].m[t], q1[i].m[t])

\* C25: a merge only appends: no element of any output collection is
\* removed, moved or changed in its scalar or one-to-one values.
C25_MergeOnlyAppends ==
    [][MergeRow => Extends(ViewSlice(heap', entries'), Output)]_vars


C25_Witness ==
    /\ pc = "next"
    /\ types = TypesOneToMany
    /\ Len(rows) = 3
    /\ Len(Output) = 2
    /\ Output[1].s.id = 0
    /\ Len(Output[1].m["vehicle"]) = 2
    /\ Output[2].s.id = 1


\* C26: scan calls the callback first with null-probe slots and sinks only
\* and then with value references and sinks only; when the first call fails
\* there is no second call; and the post-processing that resets absent
\* entities runs only when both calls succeeded.
C26_ProbesBeforeValues ==
    pc = "mapped" =>
        LET calls == cursor.calls
            role == Load(heap, entry.obj).o["role"]
        IN  /\ Len(calls) = IF cursor.last.pass = 1 THEN 1 ELSE 2
            /\ \A i \in DOMAIN calls[1] : calls[1][i].kind \in {"slot", "sink"}
            /\ Len(calls) = 2
                  => \A i \in DOMAIN calls[2] : calls[2][i].kind \in {"value", "sink"}
            /\ ret.err = cursor.last.err
            /\ IF cursor.last.pass = 0
               THEN role.nil <=> (isNil(entry) \/ isNil(entry.o["role"]))
               ELSE ~role.nil

C26_Witness ==
    /\ pc = "mapped"
    /\ cursor.columns = <<"role_title", "id">>
    /\ cursor.last = NoFailure
    /\ rows = <<[id |-> [nil |-> FALSE, v |-> 1], role_title |-> [nil |-> TRUE, v |-> 0]]>>
    /\ cursor.calls = << <<Slot("role", "title"), Slot("", "id")>>,
                         <<Sink(1), ValueRef("", "id")>> >>
    /\ Load(heap, entry.obj).o["role"].nil


\* C27: validateType ends on every target type, cyclic ones included: it
\* returns, its stack never grows beyond the structs of the type, and the
\* shape checks are reached only for types without a cycle.
C27_ValidateTypeTerminates ==
    /\ <>(pc = "validated")
    /\ [](pc # "overflow")
    /\ [](pc = "shapes" => ~Revisits(types, target))

C27_Witness ==
    /\ pc = "validated"
    /\ target = Struct("A")
    /\ types["A"] = <<Field("f1", SliceOf(Ptr(Struct("B")))), Field("f2", Struct("C"))>>
    /\ types["B"] = <<Field("f1", Ptr(Struct("A")))>>
    /\ vres = Errorf("verifyNoCycles", Struct("A"))


\* the fields of struct n that carry a tag already carried by an earlier field
Colliding(T, n) ==
    {j \in DOMAIN T[n] :
        T[n][j].tag # "" /\ \E i \in 1..(j - 1) : T[n][i].tag = T[n][j].tag}

\* what a tree has registered under a tag: the kinds of entry
Registered(f, tag) ==
    {c \in {"scalar", "oto", "otm"} :
        \/ c = "scalar" /\ tag \in Range(f.names)
        \/ c = "oto" /\ tag \in DOMAIN f.o
        \/ c = "otm" /\ tag \in DOMAIN f.m}

\* C28: binding a struct two of whose annotated fields carry the same name
\* returns a construction error that names the first name met twice, and
\* under that name the tree holds the entry registered first and no other.
C28_CollisionIsConstructionError ==
    (pc \in {"bound", "panic"} /\ Colliding(types, root) # {})
    => LET j == CHOOSE k \in Colliding(types, root) :
                    \A l \in Colliding(types, root) : k <= l
           key == types[root][j].tag
       IN  /\ pc = "bound"
           /\ ret.err # NoError
           /\ ret.err.ty = Prim(key)
           /\ Registered(entry, key) = {Cat(fieldByTag(types, root, key))}


\* what a row says about the entity of type n under a column prefix, its
\* one-to-one children and its one-to-many children
RECURSIVE RowTree(_, _, _, _)
RowTree(T, n, prefix, row) ==
    [present |-> RowEntity(T, n, prefix, row).present,
     fp |-> RowEntity(T, n, prefix, row).fp,
     o |-> [t \in Range(TagsOf(T, n, "oto")) |->
              RowTree(T, OneType(T, n, t), buildReferenceName(prefix, t), row)],
     m |-> [t \in Range(TagsOf(T, n, "otm")) |->
              RowTree(T, ElemType(T, n, t), buildReferenceName(prefix, t), row)]]

\* a viewed value of type n holds a present row entity and every present
\* descendant of it whose ancestors are present
RECURSIVE Holds(_, _, _, _)
Holds(T, n, v, e) ==
    /\ ~v.nil
    /\ fingerprint(T, n, v) = e.fp
    /\ \A t \in DOMAIN e.o :
          e.o[t].present => Holds(T, OneType(T, n, t), v.o[t], e.o[t])
    /\ \A t \in DOMAIN e.m :
          e.m[t].present
          => \E i \in DOMAIN v.m[t] : Holds(T, ElemType(T, n, t), v.m[t][i], e.m[t])

\* C29: after a row is merged, every present entity of that row whose
\* ancestors are all present is held by the output, under its parent.
C29_NoPresentDataLost ==
    (Merged /\ rows # <<>> /\ Present(types, root, "", Last))
    => \E i \in DOMAIN Output :
          Holds(types, root, Output[i], RowTree(types, root, "", Last))


\* struct n has no scalar or codec field of its own
Hollow(T, n) == TagsOf(T, n, "scalar") = <<>>

\* in a viewed value of type n every field of a hollow type is as
\* post-processing leaves it: the nil pointer, the zero struct or no element
RECURSIVE NothingHollow(_, _, _)
NothingHollow(T, n, v) ==
    \/ v.nil
    \/ /\ \A t \in DOMAIN v.o :
             IF Hollow(T, OneType(T, n, t))
             THEN IF fieldByTag(T, n, t).ty.k = "ptr"
                  THEN v.o[t].nil
                  ELSE v.o[t] = View(<<>>, ZeroStruct(T, OneType(T, n, t)))
             ELSE NothingHollow(T, OneType(T, n, t), v.o[t])
       /\ \A t \in DOMAIN v.m :
             IF Hollow(T, ElemType(T, n, t))
             THEN v.m[t] = <<>>
             ELSE \A i \in DOMAIN v.m[t] :
                     NothingHollow(T, ElemType(T, n, t), v.m[t][i])

\* C30: a struct without a scalar or codec field of its own is absent on
\* every row: after the scan its field is the nil pointer, the zero struct
\* or an empty collection, and the output never holds it or a child of it.
C30_HollowEntityIsAbsent ==
    /\ Hollow(types, root) => Output = <<>>
    /\ \A i \in DOMAIN Output : NothingHollow(types, root, Output[i])
    /\ pc = "merge"
       => /\ NothingHollow(types, root, View(heap, Instance))
          /\ Hollow(types, root) => View(heap, Instance) = View(<<>>, ZeroStruct(types, root))

\* a row that carries a member of the group has been merged
C30_Witness ==
    /\ types = TypesHollowPointer
    /\ pc = "next"
    /\ Len(rows) = 2
    /\ \A i \in 1..2 : ~rows[i]["id"].nil /\ ~rows[i]["group_member_name"].nil
    /\ rows[1]["group_member_name"] # rows[2]["group_member_name"]
    /\ Len(Output) = 1
    /\ Output[1].o["group"].nil

====
